---- MODULE Spec2Model ----
(***************************************************************************)
(* Task status records (include/swift/ABI/TaskStatus.h).                   *)
(*                                                                         *)
(* The parts of the header are modelled each with its own specification    *)
(* over the shared variables:                                              *)
(*   - the task-group record's intrusive child list (SpecGroup, where      *)
(*     attachChild is given children with an empty successor slot;         *)
(*     SpecReattach and SpecAnyCall, where it is given any child that is   *)
(*     not in the list; SpecAttach, where the children carry any           *)
(*     group-child marker and assert may be compiled out; SpecGroupLock,   *)
(*     where the calls run write by write under the status record lock     *)
(*     next to a foreign thread that walks the children),                  *)
(*   - the constructors of the child-task record (SpecChildRecord),        *)
(*   - the chain of status records linked through Parent (SpecChain),      *)
(*   - notification records run by a sweep while the owning task           *)
(*     unregisters them (SpecNotify), and sweeps over records of every     *)
(*     kind (SpecSweep),                                                   *)
(*   - dependency records, their reference on the awaited task and         *)
(*     their escalation dispatch (SpecDep), and the priorities an          *)
(*     escalation leaves behind (SpecEscalate).                            *)
(***************************************************************************)
EXTENDS Integers, Sequences, FiniteSets, TLC

\* nullptr
NULL == 0

(***************************************************************************)
(* Bounds                                                                  *)
(***************************************************************************)
\* number of child tasks that may be attached to the group
NumChildren == 3

\* the child tasks of the group
Children == 1..NumChildren

\* number of status records (addresses) the owning task may construct
NumRecords == 3

\* the status records
Records == 1..NumRecords

\* largest deadline value a DeadlineStatusRecord is given
MaxDeadline == 2

\* number of tasks, each of which may be awaited
NumTasks == 3

\* the tasks
Tasks == 1..NumTasks

\* number of tasks that suspend and own a dependency record
NumWaiters == 2

\* the tasks that suspend: the first NumWaiters tasks
Waiters == 1..NumWaiters

\* number of continuations, of task groups and of actors that may be awaited
NumTargets == 1

\* the continuations, the task groups, the actors
Targets == 1..NumTargets

\* largest JobPriority an escalation carries
MaxPriority == 2

\* the priorities of an escalation
Priorities == 1..MaxPriority

\* TaskStatusRecordKind
Kinds == {"Deadline", "ChildTask", "TaskGroup", "CancellationNotification",
          "EscalationNotification", "TaskDependency"}

\* the kinds of the two notification records
NotificationKinds == {"CancellationNotification", "EscalationNotification"}

VARIABLES
  \* TaskGroupTaskStatusRecord
  FirstChild,   \* AsyncTask *FirstChild
  LastChild,    \* AsyncTask *LastChild
  NextChild,    \* child -> childFragment()->NextChild of that child
  groupPc,      \* "ready", "hung" when a call never returns, "aborted" by a failed assert
  attached,     \* history: the children attached and not yet detached, in attach order
  slotsEmpty,   \* history: every attachChild so far was given a child whose NextChild was null
  everDetached, \* history: the children that were in the list and have been detached from it
  \* TaskStatusRecord, and the chain of the owning task
  Flags,        \* record -> TaskStatusRecordKind given at construction ("none" before)
  Parent,       \* record -> TaskStatusRecord *Parent
  Deadline,     \* record -> TaskDeadline::Value of a DeadlineStatusRecord
  recState,     \* record -> "free" (its memory holds no record) or "registered"
  innermost,    \* the innermost status record of the owning task
  registered,   \* history: the registered records, in registration order
  \* the status record lock, the owning task and the sweeping thread
  statusLock,   \* "unlocked", or held by "owner" or "sweeper"
  ownerPc,      \* <<"idle">>, <<"removing", r, step>>, or <<call, child, step, local>>
                \* while the owning task is inside attachChild or detachChild
  sweep,        \* <<"idle">>, <<"cancel">>, <<"escalate", priority>>, or <<"walk">>
                \* while a foreign thread walks the children of the group
  cursor,       \* the record the sweep is at, the child the walk is at
  running,      \* the record whose run() is executing, or NULL
  visited,      \* history: the records (the children) the sweep (the walk) under
                \* way has read, in order
  \* TaskDependencyStatusRecord of each suspending task, and the runtime around it
  DependencyKind, \* waiter -> the enum value ("none" while the task has no record)
  WaitingOn,      \* waiter -> the union: what the task waits for
  depState,       \* waiter -> "none", "constructed" or "registered"
  refCount,       \* task -> its reference count
  calls,          \* the calls into the runtime made by the last operation
  priority,       \* task -> the JobPriority it runs at
  \* the tasks' group-child fragments, the build, a ChildTaskStatusRecord
  GroupOf,        \* child -> groupChildFragment()->getGroup() ("none": no such fragment)
  assertions,     \* TRUE when assert is compiled in (NDEBUG not defined)
  ChildRecordFirstChild, \* AsyncTask *FirstChild of the ChildTaskStatusRecord
  ChildRecordFlags,      \* its TaskStatusRecordKind ("none" before construction)
  op            \* history: the last operation and its arguments

groupVars == <<FirstChild, LastChild, NextChild, groupPc, attached, slotsEmpty, everDetached>>

chainVars == <<Flags, Parent, Deadline, recState, innermost, registered>>

lockVars == <<statusLock, ownerPc, sweep, cursor, running, visited>>

vars == <<FirstChild, LastChild, NextChild, groupPc, attached, slotsEmpty, everDetached,
          Flags, Parent, Deadline, recState, innermost, registered,
          statusLock, ownerPc, sweep, cursor, running, visited,
          DependencyKind, WaitingOn, depState, refCount, calls, priority,
          GroupOf, assertions, ChildRecordFirstChild, ChildRecordFlags, op>>

depVars == <<DependencyKind, WaitingOn, depState, refCount, calls, priority>>

memberVars == <<GroupOf, assertions, ChildRecordFirstChild, ChildRecordFlags>>

(***************************************************************************)
(* Sequence helpers                                                        *)
(***************************************************************************)
Range(s) == {s[i] : i \in 1..Len(s)}

Remove(s, x) == SelectSeq(s, LAMBDA y : y # x)

NoDuplicates(s) == \A i, j \in 1..Len(s) : i # j => s[i] # s[j]

(***************************************************************************)
(* The state of each part before anything is constructed; a specification  *)
(* of one part holds the other parts in this state.                        *)
(***************************************************************************)
\* No group record in play: the empty record, never touched.
GroupIdle ==
  /\ FirstChild = NULL
  /\ LastChild = NULL
  /\ NextChild = [c \in Children |-> NULL]
  /\ groupPc = "ready"
  /\ attached = <<>>
  /\ slotsEmpty = TRUE
  /\ everDetached = {}

\* No record constructed yet, no chain.
ChainIdle ==
  /\ Flags = [r \in Records |-> "none"]
  /\ Parent = [r \in Records |-> NULL]
  /\ Deadline = [r \in Records |-> 0]
  /\ recState = [r \in Records |-> "free"]
  /\ innermost = NULL
  /\ registered = <<>>

\* Nobody holds the status record lock, no sweep is under way.
LockIdle ==
  /\ statusLock = "unlocked"
  /\ ownerPc = <<"idle">>
  /\ sweep = <<"idle">>
  /\ cursor = NULL
  /\ running = NULL
  /\ visited = <<>>

\* No task has a dependency record; every task is held by one reference and
\* already runs at the highest priority.
DepIdle ==
  /\ DependencyKind = [w \in Waiters |-> "none"]
  /\ WaitingOn = [w \in Waiters |-> NULL]
  /\ depState = [w \in Waiters |-> "none"]
  /\ refCount = [t \in Tasks |-> 1]
  /\ calls = <<>>
  /\ priority = [t \in Tasks |-> MaxPriority]

\* The TaskGroup of the task-group record: getGroup() is the record itself.
getGroup == "this"

\* The values of a task's group-child marker: no fragment, this record's
\* group, some other group.
Groups == {"none", getGroup, "other"}

\* Every child is a child of this record's group, assertions are compiled
\* in, no ChildTaskStatusRecord has been constructed.
MemberIdle ==
  /\ GroupOf = [c \in Children |-> getGroup]
  /\ assertions = TRUE
  /\ ChildRecordFirstChild = NULL
  /\ ChildRecordFlags = "none"

(***************************************************************************)
(* Linked lists                                                            *)
(***************************************************************************)
\* The walk of a linked list from t through next, cut after fuel elements
\* (LinkedListIterator over the children, getParent() along the chain).
RECURSIVE Walk(_, _, _)
Walk(next, t, fuel) ==
  IF t = NULL \/ fuel = 0 THEN <<>>
  ELSE <<t>> \o Walk(next, next[t], fuel - 1)

(***************************************************************************)
(* TaskStatusRecord and the chain of status records                        *)
(***************************************************************************)
\* resetParent(newParent) on record, in the parent links parents:
\* Parent = newParent
resetParent(parents, record, newParent) == [parents EXCEPT ![record] = newParent]

\* spliceParent that leaves the parent link as it was
spliceParent_NoWrite(parents, record, newParent) == parents

\* spliceParent(newParent) on record: Parent = newParent
spliceParent(parents, record, newParent) == [parents EXCEPT ![record] = newParent]

\* getParent()
getParent(record) == Parent[record]

\* getKind()
getKind(record) == Flags[record]

\* TaskStatusRecord(kind, parent = nullptr), reached through the constructor
\* of a derived record: the parent links once the record is constructed.
TaskStatusRecord(parents, record) == resetParent(parents, record, NULL)

\* The chain from the innermost record outward, through getParent().
chain == Walk(Parent, innermost, NumRecords + 1)

\* The record of the chain whose parent is record (the next-inner record),
\* NULL when the walk from cur ends without one.
RECURSIVE NextInner(_, _, _)
NextInner(cur, record, fuel) ==
  IF cur = NULL \/ fuel = 0 THEN NULL
  ELSE IF getParent(cur) = record THEN cur
  ELSE NextInner(getParent(cur), record, fuel - 1)

\* The owning task constructs a record of the given kind (a
\* DeadlineStatusRecord with its deadline) in memory that holds no record,
\* and addStatusRecord(task, record) links it as the new innermost record:
\* resetParent to the previous innermost.
addStatusRecord(record, kind, deadline) ==
  /\ Flags' = [Flags EXCEPT ![record] = kind]
  /\ Deadline' = [Deadline EXCEPT ![record] = deadline]
  /\ Parent' = resetParent(TaskStatusRecord(Parent, record), record, innermost)
  /\ innermost' = record
  /\ recState' = [recState EXCEPT ![record] = "registered"]
  /\ registered' = Append(registered, record)

\* removeStatusRecord(task, record): unlink record; an interior record is
\* spliced out by spliceParent on the next-inner record.  On return the
\* record's memory is given back: the model keeps no content for it.
removeStatusRecord(record) ==
  LET inner == NextInner(innermost, record, NumRecords + 1)
      spliced == IF innermost = record \/ inner = NULL THEN Parent
                 ELSE spliceParent(Parent, inner, getParent(record))
  IN
  /\ innermost' = IF innermost = record THEN getParent(record) ELSE innermost
  /\ Parent' = [spliced EXCEPT ![record] = NULL]
  /\ Flags' = [Flags EXCEPT ![record] = "none"]
  /\ Deadline' = [Deadline EXCEPT ![record] = 0]
  /\ recState' = [recState EXCEPT ![record] = "free"]
  /\ registered' = Remove(registered, record)

\* Where a record stands in the chain when removeStatusRecord is called.
ChainPlace(record) ==
  IF record = registered[Len(registered)] THEN "innermost"
  ELSE IF record = registered[1] THEN "outermost"
  ELSE "interior"

\* A registration, the lock taken and released within the step.
Register(record, kind, deadline) ==
  /\ recState[record] = "free"
  /\ (kind = "Deadline") = (deadline # 0)
  /\ addStatusRecord(record, kind, deadline)
  /\ op' = <<"addStatusRecord", record>>

\* A removal, the lock taken and released within the step.
Unregister(record) ==
  /\ recState[record] = "registered"
  /\ removeStatusRecord(record)
  /\ op' = <<"removeStatusRecord", record, ChainPlace(record)>>

ChainInit == GroupIdle /\ ChainIdle /\ LockIdle /\ DepIdle /\ MemberIdle /\ op = <<"init">>

ChainNext ==
  /\ \/ \E record \in Records, kind \in Kinds, deadline \in 0..MaxDeadline :
          Register(record, kind, deadline)
     \/ \E record \in Records : Unregister(record)
  /\ UNCHANGED <<groupVars, lockVars, depVars, memberVars>>

SpecChain == ChainInit /\ [][ChainNext]_vars

(***************************************************************************)
(* Notification records: the sweeping thread and the owning task           *)
(***************************************************************************)
\* A lock that never makes its taker wait
LockAvailable_Always == TRUE

\* The status record lock can be taken.
LockAvailable == statusLock = "unlocked"

\* The owning task constructs a record and calls addStatusRecord, which
\* takes the lock, links the record and releases the lock.
OwnerAdd(record, kind) ==
  /\ ownerPc = <<"idle">>
  /\ LockAvailable
  /\ recState[record] = "free"
  /\ addStatusRecord(record, kind, IF kind = "Deadline" THEN 1 ELSE 0)
  /\ op' = <<"addStatusRecord", record>>
  /\ UNCHANGED lockVars

\* The owning task calls removeStatusRecord(task, record).
OwnerRemoveCall(record) ==
  /\ ownerPc = <<"idle">>
  /\ recState[record] = "registered"
  /\ ownerPc' = <<"removing", record, "waiting">>
  /\ op' = <<"removeStatusRecord called", record>>
  /\ UNCHANGED <<chainVars, statusLock, sweep, cursor, running, visited>>

\* removeStatusRecord takes the status record lock.
OwnerRemoveLock ==
  /\ Len(ownerPc) = 3
  /\ ownerPc[3] = "waiting"
  /\ LockAvailable
  /\ statusLock' = "owner"
  /\ ownerPc' = <<"removing", ownerPc[2], "locked">>
  /\ op' = <<"removeStatusRecord locked", ownerPc[2]>>
  /\ UNCHANGED <<chainVars, sweep, cursor, running, visited>>

\* removeStatusRecord unlinks the record, releases the lock and returns.
OwnerRemoveReturn ==
  /\ Len(ownerPc) = 3
  /\ ownerPc[3] = "locked"
  /\ removeStatusRecord(ownerPc[2])
  /\ statusLock' = "unlocked"
  /\ ownerPc' = <<"idle">>
  /\ op' = <<"removeStatusRecord returned", ownerPc[2]>>
  /\ UNCHANGED <<sweep, cursor, running, visited>>

\* A cancelling or escalating thread takes the lock and starts its walk at
\* the innermost record.
SweepBegin(what) ==
  /\ sweep = <<"idle">>
  /\ LockAvailable
  /\ statusLock' = "sweeper"
  /\ sweep' = what
  /\ cursor' = innermost
  /\ visited' = <<>>
  /\ op' = <<"sweep begins">>
  /\ UNCHANGED <<chainVars, ownerPc, running>>

\* The record the sweep is at is one whose callback this sweep runs:
\* CancellationNotificationStatusRecord::run() on cancellation,
\* EscalationNotificationStatusRecord::run(newPriority) on escalation.
RunsCallback(record) ==
  \/ sweep[1] = "cancel" /\ getKind(record) = "CancellationNotification"
  \/ sweep[1] = "escalate" /\ getKind(record) = "EscalationNotification"

\* run() of the record at the cursor starts: Function(Argument) is entered.
RunCall ==
  /\ sweep # <<"idle">>
  /\ cursor # NULL
  /\ running = NULL
  /\ RunsCallback(cursor)
  /\ running' = cursor
  /\ visited' = Append(visited, cursor)
  /\ op' = <<"run called", cursor>>
  /\ UNCHANGED <<chainVars, statusLock, ownerPc, sweep, cursor>>

\* run() returns, and the sweep moves on to the parent.
RunReturn ==
  /\ running # NULL
  /\ running' = NULL
  /\ cursor' = getParent(cursor)
  /\ op' = <<"run returned", running>>
  /\ UNCHANGED <<chainVars, statusLock, ownerPc, sweep, visited>>

\* The sweep passes a record of another kind.
SweepSkip ==
  /\ sweep # <<"idle">>
  /\ cursor # NULL
  /\ running = NULL
  /\ ~RunsCallback(cursor)
  /\ cursor' = getParent(cursor)
  /\ visited' = Append(visited, cursor)
  /\ op' = <<"sweep passes", cursor>>
  /\ UNCHANGED <<chainVars, statusLock, ownerPc, sweep, running>>

\* The sweep is past the outermost record and releases the lock; what it
\* read is forgotten.
SweepEnd ==
  /\ sweep # <<"idle">>
  /\ cursor = NULL
  /\ running = NULL
  /\ statusLock' = "unlocked"
  /\ sweep' = <<"idle">>
  /\ visited' = <<>>
  /\ op' = <<"sweep ends">>
  /\ UNCHANGED <<chainVars, ownerPc, cursor, running>>

NotifyInit == GroupIdle /\ ChainIdle /\ LockIdle /\ DepIdle /\ MemberIdle /\ op = <<"init">>

NotifyNext ==
  /\ \/ \E record \in Records, kind \in NotificationKinds \cup {"Deadline"} :
          OwnerAdd(record, kind)
     \/ \E record \in Records : OwnerRemoveCall(record)
     \/ OwnerRemoveLock
     \/ OwnerRemoveReturn
     \/ SweepBegin(<<"cancel">>)
     \/ \E newPriority \in Priorities : SweepBegin(<<"escalate", newPriority>>)
     \/ RunCall
     \/ RunReturn
     \/ SweepSkip
     \/ SweepEnd
  /\ UNCHANGED <<groupVars, depVars, memberVars>>

SpecNotify == NotifyInit /\ [][NotifyNext]_vars

\* The same threads over a chain of records of every kind, the sweeps being
\* a cancellation and an escalation to the highest priority.
SweepNext ==
  /\ \/ \E record \in Records, kind \in Kinds : OwnerAdd(record, kind)
     \/ \E record \in Records : OwnerRemoveCall(record)
     \/ OwnerRemoveLock
     \/ OwnerRemoveReturn
     \/ SweepBegin(<<"cancel">>)
     \/ SweepBegin(<<"escalate", MaxPriority>>)
     \/ RunCall
     \/ RunReturn
     \/ SweepSkip
     \/ SweepEnd
  /\ UNCHANGED <<groupVars, depVars, memberVars>>

SpecSweep == NotifyInit /\ [][SweepNext]_vars

(***************************************************************************)
(* TaskDependencyStatusRecord                                              *)
(***************************************************************************)
\* the values of the DependencyKind enum
DependencyKinds == {"WaitingOnContinuation", "WaitingOnTask", "WaitingOnTaskGroup",
                    "WaitingOnActor"}

\* swift_retain(task) on the reference counts
swift_retain(counts, task) == [counts EXCEPT ![task] = @ + 1]

\* swift_release(task) on the reference counts
swift_release(counts, task) == [counts EXCEPT ![task] = @ - 1]

\* The constructors that retain nothing
ConstructorRetains_Never(kind, target) == refCount

\* The AsyncTask * constructor taking two references
ConstructorRetains_Twice(kind, target) ==
  IF kind = "WaitingOnTask"
  THEN swift_retain(swift_retain(refCount, target), target)
  ELSE refCount

\* The reference counts after TaskDependencyStatusRecord(target), for the
\* constructor of each kind: only the AsyncTask * one calls swift_retain.
ConstructorRetains(kind, target) ==
  IF kind = "WaitingOnTask" THEN swift_retain(refCount, target) ELSE refCount

\* What a record of each kind can be constructed on.
TargetsOf(waiter, kind) ==
  IF kind = "WaitingOnTask" THEN Tasks \ {waiter} ELSE Targets

\* The suspending task constructs its dependency record.
ConstructDependency(waiter, kind, target) ==
  /\ depState[waiter] = "none"
  /\ target \in TargetsOf(waiter, kind)
  /\ DependencyKind' = [DependencyKind EXCEPT ![waiter] = kind]
  /\ WaitingOn' = [WaitingOn EXCEPT ![waiter] = target]
  /\ refCount' = ConstructorRetains(kind, target)
  /\ depState' = [depState EXCEPT ![waiter] = "constructed"]
  /\ calls' = <<>>
  /\ op' = <<"TaskDependencyStatusRecord", waiter, kind, target>>
  /\ UNCHANGED priority

\* The record is added to the suspending task's status records.
RegisterDependency(waiter) ==
  /\ depState[waiter] = "constructed"
  /\ depState' = [depState EXCEPT ![waiter] = "registered"]
  /\ calls' = <<>>
  /\ op' = <<"addStatusRecord", waiter>>
  /\ UNCHANGED <<DependencyKind, WaitingOn, refCount, priority>>

\* swift_task_escalate(task, newPriority) in the runtime: a task already at
\* or above newPriority is left alone, any other is raised to it.
swift_task_escalate(prio, task, newPriority) ==
  [prio EXCEPT ![task] = IF @ >= newPriority THEN @ ELSE newPriority]

\* The priorities after the runtime has executed the calls made by an
\* operation; swift_actor_escalate changes no task's priority.
RECURSIVE Executed(_, _)
Executed(prio, made) ==
  IF made = <<>> THEN prio
  ELSE LET call == Head(made) IN
       IF call[1] = "swift_task_escalate"
       THEN Executed(swift_task_escalate(prio, call[2], call[3]), Tail(made))
       ELSE Executed(prio, Tail(made))

\* performEscalationAction whose WaitingOnTask case makes no call
performEscalationAction_NoTaskCall(kind, waitingOn, task, newPriority) ==
  IF kind = "WaitingOnActor"
  THEN << <<"swift_actor_escalate", waitingOn, task, newPriority>> >>
  ELSE <<>>

\* performEscalationAction without the break that ends the task-group case
performEscalationAction_FallsThrough(kind, waitingOn, task, newPriority) ==
  IF kind = "WaitingOnContinuation" THEN <<>>
  ELSE IF kind \in {"WaitingOnTaskGroup", "WaitingOnTask"}
  THEN << <<"swift_task_escalate", waitingOn, newPriority>> >>
  ELSE << <<"swift_actor_escalate", waitingOn, task, newPriority>> >>

\* performEscalationAction(newPriority): the calls the switch makes for a
\* record of the given kind waiting on waitingOn.  task is what the
\* identifier `task` of the WaitingOnActor case stands for.
performEscalationAction(kind, waitingOn, task, newPriority) ==
  IF kind = "WaitingOnContinuation" THEN <<>>
  ELSE IF kind = "WaitingOnTaskGroup" THEN <<>>
  ELSE IF kind = "WaitingOnTask"
  THEN << <<"swift_task_escalate", waitingOn, newPriority>> >>
  ELSE << <<"swift_actor_escalate", waitingOn, task, newPriority>> >>

\* An escalation of the suspended task reaches its dependency record.  The
\* record has no member, and performEscalationAction no parameter, named
\* task: what is passed as the waiting task is not determined by the record.
PerformEscalation(waiter, newPriority) ==
  /\ depState[waiter] = "registered"
  /\ \E task \in Tasks \cup {NULL} :
       LET made == performEscalationAction(DependencyKind[waiter], WaitingOn[waiter],
                                           task, newPriority) IN
       /\ calls' = made
       /\ priority' = Executed(priority, made)
  /\ op' = <<"performEscalationAction", waiter, newPriority>>
  /\ UNCHANGED <<DependencyKind, WaitingOn, depState, refCount>>

\* The escalation of the structured children of a task reaches child: the
\* walk calls swift_task_escalate(child, newPriority) itself.
EscalateChild(child, newPriority) ==
  /\ calls' = << <<"swift_task_escalate", child, newPriority>> >>
  /\ priority' = Executed(priority, calls')
  /\ op' = <<"swift_task_escalate", child, newPriority>>
  /\ UNCHANGED <<DependencyKind, WaitingOn, depState, refCount>>

\* The references after the record is removed from the task's status
\* records: the one taken on an awaited task is released.
ReleasedOnRemoval(kind, target) ==
  IF kind = "WaitingOnTask" THEN swift_release(refCount, target) ELSE refCount

\* The task resumes: its record is removed from its status records.
UnregisterDependency(waiter) ==
  /\ depState[waiter] = "registered"
  /\ refCount' = ReleasedOnRemoval(DependencyKind[waiter], WaitingOn[waiter])
  /\ DependencyKind' = [DependencyKind EXCEPT ![waiter] = "none"]
  /\ WaitingOn' = [WaitingOn EXCEPT ![waiter] = NULL]
  /\ depState' = [depState EXCEPT ![waiter] = "none"]
  /\ calls' = <<>>
  /\ op' = <<"removeStatusRecord", waiter, DependencyKind[waiter], WaitingOn[waiter]>>
  /\ UNCHANGED priority

DepInit == GroupIdle /\ ChainIdle /\ LockIdle /\ DepIdle /\ MemberIdle /\ op = <<"init">>

DepNext ==
  /\ \/ \E waiter \in Waiters, kind \in DependencyKinds, target \in Tasks \cup Targets :
          ConstructDependency(waiter, kind, target)
     \/ \E waiter \in Waiters : RegisterDependency(waiter)
     \/ \E waiter \in Waiters, newPriority \in Priorities :
          PerformEscalation(waiter, newPriority)
     \/ \E waiter \in Waiters : UnregisterDependency(waiter)
  /\ UNCHANGED <<groupVars, chainVars, lockVars, memberVars>>

SpecDep == DepInit /\ [][DepNext]_vars

\* The references held on task t by the dependency records
RetainedBy(kinds, waitingOn, t) ==
  Cardinality({w \in Waiters : kinds[w] = "WaitingOnTask" /\ waitingOn[w] = t})

\* Every suspending task has a registered record that waits on some other
\* task; the tasks run at any priorities.
EscalateInit ==
  /\ GroupIdle /\ ChainIdle /\ LockIdle /\ MemberIdle
  /\ DependencyKind = [w \in Waiters |-> "WaitingOnTask"]
  /\ WaitingOn \in [Waiters -> Tasks]
  /\ \A w \in Waiters : WaitingOn[w] \in TargetsOf(w, "WaitingOnTask")
  /\ depState = [w \in Waiters |-> "registered"]
  /\ refCount = [t \in Tasks |-> 1 + RetainedBy(DependencyKind, WaitingOn, t)]
  /\ calls = <<>>
  /\ priority \in [Tasks -> 0..MaxPriority]
  /\ op = <<"init">>

EscalateNext ==
  /\ \/ \E waiter \in Waiters, newPriority \in Priorities :
          PerformEscalation(waiter, newPriority)
     \/ \E child \in Tasks, newPriority \in Priorities :
          EscalateChild(child, newPriority)
  /\ UNCHANGED <<groupVars, chainVars, lockVars, memberVars>>

SpecEscalate == EscalateInit /\ [][EscalateNext]_vars

(***************************************************************************)
(* TaskGroupTaskStatusRecord                                               *)
(***************************************************************************)
\* getNextChildTask(task): task->childFragment()->getNextChild()
getNextChildTask(task) == NextChild[task]

\* A walk of more than NumChildren elements has met some child twice: the
\* iteration does not end.
WalkFuel == NumChildren + 1

\* children(): child_iterator::rangeBeginning(getFirstChild())
children == Walk(NextChild, FirstChild, WalkFuel)

\* children() reaches a null successor, i.e. the iteration ends
childrenTerminates == Len(children) <= NumChildren

\* The constructors: TaskGroupTaskStatusRecord() leaves the list empty,
\* TaskGroupTaskStatusRecord(child) starts it with child (which may be null),
\* whose successor slot is asserted to be empty.
GroupConstructed ==
  /\ NextChild = [c \in Children |-> NULL]
  /\ \E child \in Children \cup {NULL} :
       /\ FirstChild = child
       /\ LastChild = child
       /\ attached = IF child = NULL THEN <<>> ELSE <<child>>
       /\ op = <<"TaskGroupTaskStatusRecord", child>>
  /\ groupPc = "ready"
  /\ slotsEmpty = TRUE
  /\ everDetached = {}

\* attachChild without the setNextChild on the old tail
attachChild_NoLink(child) ==
  /\ LastChild' = child
  /\ FirstChild' = IF FirstChild = NULL THEN child ELSE FirstChild
  /\ UNCHANGED NextChild

\* attachChild that moves LastChild only when the list was empty
attachChild_StaleLast(child) ==
  IF FirstChild = NULL
  THEN /\ FirstChild' = child
       /\ LastChild' = child
       /\ UNCHANGED NextChild
  ELSE /\ NextChild' = [NextChild EXCEPT ![LastChild] = child]
       /\ UNCHANGED <<FirstChild, LastChild>>

\* attachChild that also closes the list into a ring, the new tail pointing
\* back at the first child
attachChild_Circular(child) ==
  /\ LastChild' = child
  /\ IF FirstChild = NULL
     THEN /\ FirstChild' = child
          /\ NextChild' = [NextChild EXCEPT ![child] = child]
     ELSE /\ NextChild' = [NextChild EXCEPT ![LastChild] = child, ![child] = FirstChild]
          /\ UNCHANGED FirstChild

\* attachChild that also clears the successor slot of the child it attaches
attachChild_ClearsSlot(child) ==
  /\ LastChild' = child
  /\ IF FirstChild = NULL
     THEN /\ FirstChild' = child
          /\ NextChild' = [NextChild EXCEPT ![child] = NULL]
     ELSE /\ NextChild' = [[NextChild EXCEPT ![child] = NULL] EXCEPT ![LastChild] = child]
          /\ UNCHANGED FirstChild

\* attachChild(child): the assignments of the body
attachChild(child) ==
  LET oldLastChild == LastChild IN
  /\ LastChild' = child
  /\ IF FirstChild = NULL
     THEN /\ FirstChild' = child
          /\ UNCHANGED NextChild
     ELSE /\ NextChild' = [NextChild EXCEPT ![oldLastChild] = child]
          /\ UNCHANGED FirstChild

\* The loop of detachChild handing back the tail when no node has child as
\* its successor
RECURSIVE ScanPrev_ReturnsTail(_, _, _)
ScanPrev_ReturnsTail(prev, child, fuel) ==
  IF prev = NULL THEN NULL
  ELSE IF fuel = 0 THEN -1
  ELSE IF getNextChildTask(prev) = child \/ getNextChildTask(prev) = NULL THEN prev
  ELSE ScanPrev_ReturnsTail(getNextChildTask(prev), child, fuel - 1)

\* The while (prev) loop of detachChild: the node whose successor is child,
\* NULL when the scan reaches the end of the list without finding one, and
\* -1 when the scan never ends (the list from prev is cyclic and has no
\* such node).
RECURSIVE ScanPrev(_, _, _)
ScanPrev(prev, child, fuel) ==
  IF prev = NULL THEN NULL
  ELSE IF fuel = 0 THEN -1
  ELSE IF getNextChildTask(prev) = child THEN prev
  ELSE ScanPrev(getNextChildTask(prev), child, fuel - 1)

\* detachChild whose splice forgets to move LastChild back to prev
detachChild_LastNotMoved(child) ==
  IF FirstChild = child
  THEN /\ FirstChild' = getNextChildTask(child)
       /\ LastChild' = IF getNextChildTask(child) = NULL THEN NULL ELSE LastChild
       /\ UNCHANGED <<NextChild, groupPc>>
  ELSE LET prev == ScanPrev(FirstChild, child, WalkFuel) IN
       IF prev = -1
       THEN /\ groupPc' = "hung"
            /\ UNCHANGED <<FirstChild, LastChild, NextChild>>
       ELSE IF prev = NULL
       THEN UNCHANGED <<FirstChild, LastChild, NextChild, groupPc>>
       ELSE /\ NextChild' = [NextChild EXCEPT ![prev] = getNextChildTask(child)]
            /\ UNCHANGED <<FirstChild, LastChild, groupPc>>

\* detachChild that does not clear LastChild when the list becomes empty
detachChild_LastNotCleared(child) ==
  IF FirstChild = child
  THEN /\ FirstChild' = getNextChildTask(child)
       /\ UNCHANGED <<LastChild, NextChild, groupPc>>
  ELSE LET prev == ScanPrev(FirstChild, child, WalkFuel) IN
       IF prev = -1
       THEN /\ groupPc' = "hung"
            /\ UNCHANGED <<FirstChild, LastChild, NextChild>>
       ELSE IF prev = NULL
       THEN UNCHANGED <<FirstChild, LastChild, NextChild, groupPc>>
       ELSE /\ NextChild' = [NextChild EXCEPT ![prev] = getNextChildTask(child)]
            /\ LastChild' = IF child = LastChild THEN prev ELSE LastChild
            /\ UNCHANGED <<FirstChild, groupPc>>

\* detachChild whose splice moves LastChild but does not relink prev
detachChild_NoSplice(child) ==
  IF FirstChild = child
  THEN /\ FirstChild' = getNextChildTask(child)
       /\ LastChild' = IF getNextChildTask(child) = NULL THEN NULL ELSE LastChild
       /\ UNCHANGED <<NextChild, groupPc>>
  ELSE LET prev == ScanPrev(FirstChild, child, WalkFuel) IN
       IF prev = -1
       THEN /\ groupPc' = "hung"
            /\ UNCHANGED <<FirstChild, LastChild, NextChild>>
       ELSE IF prev = NULL
       THEN UNCHANGED <<FirstChild, LastChild, NextChild, groupPc>>
       ELSE /\ LastChild' = IF child = LastChild THEN prev ELSE LastChild
            /\ UNCHANGED <<FirstChild, NextChild, groupPc>>

\* detachChild(child): the assignments of the body
detachChild(child) ==
  IF FirstChild = child
  THEN /\ FirstChild' = getNextChildTask(child)
       /\ LastChild' = IF getNextChildTask(child) = NULL THEN NULL ELSE LastChild
       /\ UNCHANGED <<NextChild, groupPc>>
  ELSE LET prev == ScanPrev(FirstChild, child, WalkFuel) IN
       IF prev = -1
       THEN /\ groupPc' = "hung"
            /\ UNCHANGED <<FirstChild, LastChild, NextChild>>
       ELSE IF prev = NULL
       THEN UNCHANGED <<FirstChild, LastChild, NextChild, groupPc>>
       ELSE /\ NextChild' = [NextChild EXCEPT ![prev] = getNextChildTask(child)]
            /\ LastChild' = IF child = LastChild THEN prev ELSE LastChild
            /\ UNCHANGED <<FirstChild, groupPc>>

\* A call of attachChild on a child that is not in the list.
AttachChild(child) ==
  /\ groupPc = "ready"
  /\ child \notin Range(attached)
  /\ attachChild(child)
  /\ attached' = Append(attached, child)
  /\ slotsEmpty' = (slotsEmpty /\ NextChild[child] = NULL)
  /\ op' = <<"attachChild", child>>
  /\ UNCHANGED <<groupPc, everDetached>>

\* A call of attachChild by a caller that only hands over children whose
\* successor slot is empty (what the constructor asserts of its child).
AttachFreshChild(child) ==
  /\ NextChild[child] = NULL
  /\ AttachChild(child)

\* Where a child stands among the attached children when detachChild is called.
Place(child) ==
  IF child \notin Range(attached) THEN "absent"
  ELSE IF child = attached[1] THEN "first"
  ELSE IF child = attached[Len(attached)] THEN "last"
  ELSE "interior"

\* A call of detachChild, on a child of the list or on any other child.
DetachChild(child) ==
  /\ groupPc = "ready"
  /\ detachChild(child)
  /\ attached' = Remove(attached, child)
  /\ everDetached' = IF child \in Range(attached) THEN everDetached \cup {child} ELSE everDetached
  /\ op' = <<"detachChild", child, Place(child)>>
  /\ UNCHANGED slotsEmpty

GroupInit == GroupConstructed /\ ChainIdle /\ LockIdle /\ DepIdle /\ MemberIdle

GroupNext ==
  /\ \/ \E child \in Children : AttachFreshChild(child)
     \/ \E child \in Children : DetachChild(child)
  /\ UNCHANGED <<chainVars, lockVars, depVars, memberVars>>

\* The calls of C1: attachChild on any child that is not in the list,
\* detachChild on a child of the list.
ReattachNext ==
  /\ \/ \E child \in Children : AttachChild(child)
     \/ \E child \in Range(attached) : DetachChild(child)
  /\ UNCHANGED <<chainVars, lockVars, depVars, memberVars>>

\* Any attachChild on a child that is not in the list, any detachChild.
AnyCallNext ==
  /\ \/ \E child \in Children : AttachChild(child)
     \/ \E child \in Children : DetachChild(child)
  /\ UNCHANGED <<chainVars, lockVars, depVars, memberVars>>

SpecGroup == GroupInit /\ [][GroupNext]_vars

SpecReattach == GroupInit /\ [][ReattachNext]_vars

SpecAnyCall == GroupInit /\ [][AnyCallNext]_vars

(***************************************************************************)
(* Claims about the task-group record                                      *)
(***************************************************************************)

\* C1 as stated: after any attachChild calls (each on a child not in the list,
\* a child detached earlier included) and detachChild calls (each on a child
\* of the list), children() is exactly the attached and not yet detached
\* children, each once, in the order of their latest attach.
C1_ChildrenAfterAnyReattach ==
  groupPc = "ready" => children = attached

\* C1 amended: the same, provided every attachChild was given a child whose
\* successor slot was empty at the call (a never attached child, or one that
\* was the tail when it was detached).
C1_ChildrenAreAttachedInOrder ==
  slotsEmpty => (groupPc = "ready" /\ children = attached /\ NoDuplicates(children))

\* C1 witness: a child that was detached earlier has just been attached again
\* behind another child, and every attach so far met an empty slot.
C1_Witness ==
  /\ slotsEmpty
  /\ Len(attached) >= 2
  /\ \E c \in everDetached : op = <<"attachChild", c>>
  /\ \E d \in everDetached : d \notin Range(attached) /\ NextChild[d] # NULL

\* The child before c in a sequence of children
Predecessor(s, c) ==
  LET i == CHOOSE k \in 1..Len(s) : s[k] = c IN s[i - 1]

\* C2: detachChild of the current first sets first to that child's successor
\* and clears last when there is none; detachChild of the current last, when it
\* is not first, sets last to its predecessor, which then has no successor;
\* detachChild of any other child of the list leaves first and last alone and
\* keeps the remaining children in their order.
C2_DetachUpdatesFirstAndLast ==
  [][\A c \in Children :
       (op' = <<"detachChild", c, Place(c)>> /\ c \in Range(children)) =>
         IF c = FirstChild
         THEN /\ FirstChild' = NextChild[c]
              /\ (NextChild[c] = NULL => LastChild' = NULL)
         ELSE IF c = LastChild
         THEN /\ LastChild' = Predecessor(children, c)
              /\ NextChild'[LastChild'] = NULL
         ELSE /\ FirstChild' = FirstChild
              /\ LastChild' = LastChild
              /\ children' = Remove(children, c)]_vars

\* C2 witness: the last of three children has been detached, two remain.
C2_Witness ==
  /\ \E c \in Children : op = <<"detachChild", c, "last">>
  /\ Len(attached) = 2
  /\ LastChild = attached[2]

\* C3: first is none iff last is none, and both are none iff children() is
\* empty, after either constructor and any attachChild/detachChild calls.
C3_FirstNoneIffLastNone ==
  groupPc = "ready" =>
    /\ (FirstChild = NULL <=> LastChild = NULL)
    /\ ((FirstChild = NULL /\ LastChild = NULL) <=> children = <<>>)

\* C3 witness: the list has been emptied again by detaching its only child.
C3_Witness ==
  /\ \E c \in Children : op = <<"detachChild", c, "first">>
  /\ attached = <<>>
  /\ FirstChild = NULL
  /\ everDetached # {}

Reverse(s) == [i \in 1..Len(s) |-> s[Len(s) + 1 - i]]

\* C6: after any registrations (each record linked as the new innermost by
\* resetParent to the previous innermost) and removals in any order (an
\* interior one by spliceParent on the next-inner record), the chain followed
\* through the parent links from the innermost record is exactly the still
\* registered records in reverse registration order, whatever their kinds and
\* deadline values.
C6_ChainIsReverseRegistrationOrder ==
  chain = Reverse(registered)

\* C6 witness: an interior record has been removed and the two deadline
\* records left stand with the smaller deadline outermost and the larger
\* innermost, the reverse of the scenario's values.
C6_Witness ==
  /\ \E r \in Records : op = <<"removeStatusRecord", r, "interior">>
  /\ Len(registered) = 2
  /\ getKind(registered[1]) = "Deadline"
  /\ getKind(registered[2]) = "Deadline"
  /\ Deadline[registered[1]] < Deadline[registered[2]]

(***************************************************************************)
(* Claims about the notification records                                   *)
(***************************************************************************)
\* C5: a run() of a notification record's callback and removeStatusRecord of
\* that record never interleave: while run() executes, the record is still
\* registered (removeStatusRecord has not returned, so no run() is started
\* after it returned) and removeStatusRecord is not unlinking it.
C5_RunAndRemoveNeverInterleave ==
  \A r \in Records :
    running = r =>
      /\ recState[r] = "registered"
      /\ getKind(r) \in NotificationKinds
      /\ ownerPc # <<"removing", r, "locked">>

\* C5 witness: the owning task has called removeStatusRecord on a record
\* while a sweep is inside that record's run().
C5_Witness ==
  /\ running # NULL
  /\ ownerPc = <<"removing", running, "waiting">>

(***************************************************************************)
(* Claims about the dependency records                                     *)
(***************************************************************************)
\* C7: constructing a waiting-on-task dependency record increments the
\* referenced task's reference count by exactly one; constructing a
\* waiting-on-continuation, -task-group or -actor record changes no
\* reference count.
C7_ConstructionRetainsOnlyAwaitedTask ==
  [][\A w \in Waiters, kind \in DependencyKinds, target \in Tasks \cup Targets :
       (/\ op' = <<"TaskDependencyStatusRecord", w, kind, target>>
        /\ depState[w] = "none"
        /\ depState'[w] = "constructed") =>
         IF kind = "WaitingOnTask"
         THEN refCount' = [refCount EXCEPT ![target] = refCount[target] + 1]
         ELSE refCount' = refCount]_vars

\* C7 witness: a second waiting-on-task record has just been constructed on a
\* task another record already waits on; the task is held three times.
C7_Witness ==
  \E w \in Waiters, t \in Tasks :
    /\ op = <<"TaskDependencyStatusRecord", w, "WaitingOnTask", t>>
    /\ refCount[t] = 3

\* The waiting-on-task records that exist and refer to task t
RecordsWaitingOn(t) ==
  {w \in Waiters : /\ depState[w] # "none"
                   /\ DependencyKind[w] = "WaitingOnTask"
                   /\ WaitingOn[w] = t}

\* C8: unregistering a waiting-on-task dependency record decrements the
\* referenced task's reference count by exactly one, and once the records
\* constructed on a task have all been unregistered the task's count is what it
\* was before they were constructed: nothing leaked, nothing released twice.
C8_UnregistrationReleasesTheReference ==
  /\ [](\A t \in Tasks : RecordsWaitingOn(t) = {} => refCount[t] = 1)
  /\ [][\A w \in Waiters, t \in Tasks :
          (/\ op' = <<"removeStatusRecord", w, "WaitingOnTask", t>>
           /\ depState[w] = "registered"
           /\ depState'[w] = "none") =>
            refCount' = [refCount EXCEPT ![t] = refCount[t] - 1]]_vars

\* C8 witness: a waiting-on-task record has been constructed, registered and
\* unregistered, and its task is back at its count.
C8_Witness ==
  \E w \in Waiters, t \in Tasks :
    /\ op = <<"removeStatusRecord", w, "WaitingOnTask", t>>
    /\ refCount[t] = 1

\* C9: performEscalationAction(newPriority) calls escalate-task exactly once,
\* with the referenced task and newPriority, on a waiting-on-task record, and
\* calls neither escalate-task nor escalate-actor on a waiting-on-continuation
\* or waiting-on-task-group record.
C9_EscalationDispatch ==
  \A w \in Waiters, p \in Priorities :
    op = <<"performEscalationAction", w, p>> =>
      /\ DependencyKind[w] = "WaitingOnTask" =>
            calls = << <<"swift_task_escalate", WaitingOn[w], p>> >>
      /\ DependencyKind[w] \in {"WaitingOnContinuation", "WaitingOnTaskGroup"} =>
            calls = <<>>

\* C9 witness: an escalation has been delivered to a waiting-on-task record.
C9_Witness ==
  \E w \in Waiters, p \in Priorities :
    /\ op = <<"performEscalationAction", w, p>>
    /\ DependencyKind[w] = "WaitingOnTask"
    /\ Len(calls) = 1

\* C10: performEscalationAction(newPriority) on a waiting-on-actor record
\* calls escalate-actor exactly once, passing the referenced actor, the task
\* the record is attached to, and newPriority.
C10_ActorEscalationPassesWaitingTask ==
  \A w \in Waiters, p \in Priorities :
    (op = <<"performEscalationAction", w, p>> /\ DependencyKind[w] = "WaitingOnActor") =>
      calls = << <<"swift_actor_escalate", WaitingOn[w], w, p>> >>

(***************************************************************************)
(* Further claims about the task-group record                              *)
(***************************************************************************)
\* C11: detachChild(child) on a record whose list does not contain child, the
\* empty list included, returns without modifying first, last or any child's
\* successor slot, and signals no error.
C11_DetachOfAbsentChildChangesNothing ==
  [][\A c \in Children :
       (op' = <<"detachChild", c, "absent">> /\ c \notin Range(children)) =>
         /\ FirstChild' = FirstChild
         /\ LastChild' = LastChild
         /\ NextChild' = NextChild
         /\ groupPc' = "ready"]_vars

\* C11 witness: detachChild has been called on a child that was detached
\* before and still carries a successor, while other children are attached.
C11_Witness ==
  \E c \in everDetached :
    /\ op = <<"detachChild", c, "absent">>
    /\ NextChild[c] # NULL
    /\ attached # <<>>

C18_EmptySlotsKeepTheListWellFormed ==
  slotsEmpty =>
    /\ (LastChild # NULL => NextChild[LastChild] = NULL)
    /\ NoDuplicates(children)
    /\ childrenTerminates

\* C18 witness: the first child and then the tail have been detached from a
\* list of three, every attach having met an empty slot.
C18_Witness ==
  /\ slotsEmpty
  /\ \E c \in Children : op = <<"detachChild", c, "last">>
  /\ Len(attached) >= 1
  /\ \E d \in everDetached : d \notin Range(attached) /\ NextChild[d] # NULL

\* The steps that call attachChild(c) or detachChild(c)
IsAttachOf(c) == op' = <<"attachChild", c>>

IsDetachOf(c) == \E place \in {"first", "last", "interior", "absent"} :
                   op' = <<"detachChild", c, place>>

hasGroupChildFragment(child) == GroupOf[child] # "none"

\* The asserts of attachChild without the comparison of the groups
attachChildAsserts_MarkerOnly(child) == hasGroupChildFragment(child)

\* The two asserts at the head of attachChild
attachChildAsserts(child) ==
  /\ hasGroupChildFragment(child)
  /\ GroupOf[child] = getGroup

\* A call of attachChild on any task that is not in the list.  Where assert
\* is compiled in, a failed assert aborts the process before the body runs;
\* where it is compiled out, the body runs whatever the task's marker.
AttachAnyTask(child) ==
  /\ groupPc = "ready"
  /\ child \notin Range(attached)
  /\ op' = <<"attachChild", child>>
  /\ IF assertions /\ ~attachChildAsserts(child)
     THEN /\ groupPc' = "aborted"
          /\ UNCHANGED <<FirstChild, LastChild, NextChild, attached, slotsEmpty, everDetached>>
     ELSE /\ attachChild(child)
          /\ attached' = Append(attached, child)
          /\ slotsEmpty' = (slotsEmpty /\ NextChild[child] = NULL)
          /\ UNCHANGED <<groupPc, everDetached>>

\* The tasks carry any marker, the build is either one, the group record is
\* constructed.
AttachInit ==
  /\ GroupConstructed
  /\ GroupOf \in [Children -> Groups]
  /\ assertions \in BOOLEAN
  /\ ChildRecordFirstChild = NULL
  /\ ChildRecordFlags = "none"
  /\ ChainIdle /\ LockIdle /\ DepIdle

AttachNext ==
  /\ \E child \in Children : AttachAnyTask(child)
  /\ UNCHANGED <<chainVars, lockVars, depVars, memberVars>>

SpecAttach == AttachInit /\ [][AttachNext]_vars

\* ChildTaskStatusRecord(AsyncTask *child): no assert in its body
ConstructChildRecord(child) ==
  /\ groupPc = "ready"
  /\ ChildRecordFlags' = "ChildTask"
  /\ ChildRecordFirstChild' = child
  /\ op' = <<"ChildTaskStatusRecord", child>>
  /\ UNCHANGED <<groupVars, GroupOf, assertions>>

\* The two asserts in the body of
\* ChildTaskStatusRecord(AsyncTask *child, TaskStatusRecordKind kind)
ChildTaskStatusRecordAsserts(child, kind) ==
  /\ kind = "ChildTask"
  /\ ~hasGroupChildFragment(child)

\* ChildTaskStatusRecord(AsyncTask *child, TaskStatusRecordKind kind): the
\* member initializers, then the asserts.  child is a task: the second
\* assert dereferences it.
ConstructChildRecordOfKind(child, kind) ==
  /\ groupPc = "ready"
  /\ ChildRecordFlags' = kind
  /\ ChildRecordFirstChild' = child
  /\ groupPc' = IF assertions /\ ~ChildTaskStatusRecordAsserts(child, kind)
                THEN "aborted" ELSE "ready"
  /\ op' = <<"ChildTaskStatusRecord", child, kind>>
  /\ UNCHANGED <<FirstChild, LastChild, NextChild, attached, slotsEmpty, everDetached>>
  /\ UNCHANGED <<GroupOf, assertions>>

\* The tasks carry any marker, the build is either one; no record yet.
ChildRecordInit ==
  /\ GroupIdle
  /\ GroupOf \in [Children -> Groups]
  /\ assertions \in BOOLEAN
  /\ ChildRecordFirstChild = NULL
  /\ ChildRecordFlags = "none"
  /\ ChainIdle /\ LockIdle /\ DepIdle
  /\ op = <<"init">>

ChildRecordNext ==
  /\ \/ \E child \in Children \cup {NULL} : ConstructChildRecord(child)
     \/ \E child \in Children, kind \in Kinds : ConstructChildRecordOfKind(child, kind)
  /\ UNCHANGED <<chainVars, lockVars, depVars>>

SpecChildRecord == ChildRecordInit /\ [][ChildRecordNext]_vars

\* C12: even where assert is compiled in, no Child-Task record that has been
\* constructed (the process not having been aborted by a constructor's
\* assert) has as its child a task that carries the group-child marker.
C12_NoGroupMemberInChildRecord ==
  (/\ assertions
   /\ groupPc # "aborted"
   /\ ChildRecordFlags = "ChildTask"
   /\ ChildRecordFirstChild # NULL) => ~hasGroupChildFragment(ChildRecordFirstChild)

\* The effect C13 names: the call is aborted and the list is as it was.
FailsFastUnchanged ==
  /\ groupPc' = "aborted"
  /\ FirstChild' = FirstChild
  /\ LastChild' = LastChild
  /\ NextChild' = NextChild

\* C13 as stated: attachChild on a child without the marker, or with the
\* marker of another group, aborts and leaves FirstChild, LastChild and every
\* NextChild as they were; the list changes only for a child of this group.
C13_AttachOfNonMemberFailsFast ==
  [][\A c \in Children :
       (op' = <<"attachChild", c>> /\ GroupOf[c] # getGroup) => FailsFastUnchanged]_vars

\* C13, amended: the same where assert is compiled in.
C13_AttachOfNonMemberFailsFastWithAsserts ==
  [][\A c \in Children :
       (assertions /\ op' = <<"attachChild", c>> /\ GroupOf[c] # getGroup)
          => FailsFastUnchanged]_vars

\* attachChild was called, with assert compiled in, on a child of another
\* group while two children were in the list, and aborted.
C13_Witness ==
  \E c \in Children :
    /\ assertions
    /\ op = <<"attachChild", c>>
    /\ GroupOf[c] = "other"
    /\ groupPc = "aborted"
    /\ Len(attached) = 2

(***************************************************************************)
(* Claims about escalation through a dependency record                     *)
(***************************************************************************)
Max(a, b) == IF a >= b THEN a ELSE b

\* The escalation an operation delivered, as <<task, priority>>: through the
\* record of a suspended task to the task it waits on, or by the walk of the
\* structured children to the child itself.
Delivery(o, waitingOn) ==
  IF o[1] = "performEscalationAction" THEN <<waitingOn[o[2]], o[3]>>
  ELSE IF o[1] = "swift_task_escalate" THEN <<o[2], o[3]>>
  ELSE <<NULL, NULL>>

\* C14 as stated: a delivery of p to a task to which p was just delivered
\* (through the record or by the child walk) changes no priority; a delivery
\* of p2 after one of p1 <= p2 leaves the task at max(p1, p2) = p2; no
\* delivery lowers a priority.
C14_EscalationLeavesMaxOfDelivered ==
  [][LET now == Delivery(op', WaitingOn')
         before == Delivery(op, WaitingOn)
     IN  now[1] # NULL =>
           /\ (before = now => priority' = priority)
           /\ (before[1] = now[1] /\ before[2] <= now[2]) => priority'[now[1]] = now[2]
           /\ \A u \in Tasks : priority'[u] >= priority[u]]_vars

\* C14, amended: every delivery of p leaves the task at the larger of p and
\* the priority it had, and every other task where it was; so a repeated
\* delivery changes nothing, and after p1 then p2 >= p1 the task is at p2
\* when it was at or below p2 before, and where it was otherwise.
C14_EscalationLeavesMaxOfPriorAndDelivered ==
  [][LET now == Delivery(op', WaitingOn')
         before == Delivery(op, WaitingOn)
         t == now[1]
         p == now[2]
     IN  t # NULL =>
           /\ priority'[t] = Max(priority[t], p)
           /\ \A u \in Tasks \ {t} : priority'[u] = priority[u]
           /\ (before = now => priority' = priority)
           /\ (before[1] = t /\ before[2] <= p) =>
                /\ priority[t] >= before[2]
                /\ priority'[t] = Max(priority[t], Max(before[2], p))
           /\ \A u \in Tasks : priority'[u] >= priority[u]]_vars

\* An escalation was delivered through the record of a suspended task to
\* the task it waits on, which runs above the delivered priority.
C14_Witness ==
  \E w \in Waiters, p \in Priorities :
    /\ op = <<"performEscalationAction", w, p>>
    /\ DependencyKind[w] = "WaitingOnTask"
    /\ calls = << <<"swift_task_escalate", WaitingOn[w], p>> >>
    /\ priority[WaitingOn[w]] > p
    /\ \E u \in Tasks : priority[u] < p

(***************************************************************************)
(* Claims about sweeps of the chain under the status record lock           *)
(***************************************************************************)
\* C16: while a sweep is under way, the record it is at and every record it
\* has read are registered, none was read twice, and what it has read
\* followed by what is still ahead of it through the parent links is the
\* registered records from the innermost outward; so the sweep reads each
\* registered record exactly once and ends after that many records,
\* whatever the kinds of the records.
C16_SweepReadsEachRegisteredRecordOnce ==
  sweep # <<"idle">> =>
    LET ahead == IF running # NULL THEN getParent(cursor) ELSE cursor IN
    /\ cursor # NULL => recState[cursor] = "registered"
    /\ \A i \in 1..Len(visited) : recState[visited[i]] = "registered"
    /\ NoDuplicates(visited)
    /\ visited \o Walk(Parent, ahead, NumRecords + 1) = Reverse(registered)

\* A sweep has read every record of a full chain of records of different
\* kinds, registered out of address order after an earlier removal, while
\* the owning task waits for the lock to remove one of them.
C16_Witness ==
  /\ sweep # <<"idle">>
  /\ cursor = NULL
  /\ Len(visited) = NumRecords
  /\ Cardinality({getKind(r) : r \in Records}) = NumRecords
  /\ visited[1] < visited[2]
  /\ Len(ownerPc) = 3
  /\ ownerPc[3] = "waiting"

(***************************************************************************)
(* attachChild and detachChild write by write, on the owning task under    *)
(* the status record lock, while a foreign thread walks the children under *)
(* the same lock                                                           *)
(***************************************************************************)
\* The owning task is inside the given call at the given step.
OwnerAt(call, step) ==
  /\ Len(ownerPc) = 4
  /\ ownerPc[1] = call
  /\ ownerPc[3] = step

\* The owning task takes the status record lock and enters attachChild(child)
\* on a child that is not in the list and whose successor slot is empty, or
\* detachChild(child).
GroupOwnerLock(call, child) ==
  /\ ownerPc = <<"idle">>
  /\ groupPc = "ready"
  /\ LockAvailable
  /\ call = "attachChild" => (child \notin Range(attached) /\ NextChild[child] = NULL)
  /\ statusLock' = "owner"
  /\ ownerPc' = <<call, child, "entered", NULL>>
  /\ op' = <<"entered", call, child>>
  /\ UNCHANGED <<groupVars, sweep, cursor, running, visited>>

\* The call returns and the owning task releases the lock.
GroupOwnerReturn ==
  /\ statusLock' = "unlocked"
  /\ ownerPc' = <<"idle">>
  /\ UNCHANGED <<groupPc, slotsEmpty, sweep, cursor, running, visited>>

\* attachChild: auto oldLastChild = LastChild; LastChild = child;
AttachSetLast ==
  /\ OwnerAt("attachChild", "entered")
  /\ LastChild' = ownerPc[2]
  /\ ownerPc' = <<"attachChild", ownerPc[2], "last set", LastChild>>
  /\ op' = <<"LastChild set", ownerPc[2]>>
  /\ UNCHANGED <<FirstChild, NextChild, groupPc, attached, slotsEmpty, everDetached>>
  /\ UNCHANGED <<statusLock, sweep, cursor, running, visited>>

\* attachChild: if (!FirstChild) { FirstChild = child; return; }
\* oldLastChild->childFragment()->setNextChild(child);
AttachLink ==
  /\ OwnerAt("attachChild", "last set")
  /\ IF FirstChild = NULL
     THEN /\ FirstChild' = ownerPc[2]
          /\ UNCHANGED NextChild
     ELSE /\ NextChild' = [NextChild EXCEPT ![ownerPc[4]] = ownerPc[2]]
          /\ UNCHANGED FirstChild
  /\ attached' = Append(attached, ownerPc[2])
  /\ op' = <<"attachChild", ownerPc[2]>>
  /\ GroupOwnerReturn
  /\ UNCHANGED <<LastChild, everDetached>>

\* The children once detachChild(child) has returned
Detached(child) ==
  /\ attached' = Remove(attached, child)
  /\ everDetached' = IF child \in Range(attached) THEN everDetached \cup {child}
                     ELSE everDetached
  /\ op' = <<"detachChild", child, Place(child)>>

\* detachChild: if (FirstChild == child) FirstChild = getNextChildTask(child);
DetachMoveFirst ==
  /\ OwnerAt("detachChild", "entered")
  /\ FirstChild = ownerPc[2]
  /\ FirstChild' = getNextChildTask(ownerPc[2])
  /\ ownerPc' = <<"detachChild", ownerPc[2], "first moved", NULL>>
  /\ op' = <<"FirstChild moved", ownerPc[2]>>
  /\ UNCHANGED <<LastChild, NextChild, groupPc, attached, slotsEmpty, everDetached>>
  /\ UNCHANGED <<statusLock, sweep, cursor, running, visited>>

\* detachChild: if (FirstChild == nullptr) LastChild = nullptr; return;
DetachClearLast ==
  /\ OwnerAt("detachChild", "first moved")
  /\ LastChild' = IF FirstChild = NULL THEN NULL ELSE LastChild
  /\ Detached(ownerPc[2])
  /\ GroupOwnerReturn
  /\ UNCHANGED <<FirstChild, NextChild>>

\* detachChild: the while (prev) loop, which only reads.  Without a node
\* that precedes child the call returns; a scan that never ends keeps the
\* lock.
DetachScan ==
  /\ OwnerAt("detachChild", "entered")
  /\ FirstChild # ownerPc[2]
  /\ LET prev == ScanPrev(FirstChild, ownerPc[2], WalkFuel) IN
     IF prev = -1
     THEN /\ groupPc' = "hung"
          /\ ownerPc' = <<"detachChild", ownerPc[2], "scanning", NULL>>
          /\ op' = <<"detachChild scans", ownerPc[2]>>
          /\ UNCHANGED <<FirstChild, LastChild, NextChild, attached, slotsEmpty, everDetached>>
          /\ UNCHANGED <<statusLock, sweep, cursor, running, visited>>
     ELSE IF prev = NULL
     THEN /\ Detached(ownerPc[2])
          /\ GroupOwnerReturn
          /\ UNCHANGED <<FirstChild, LastChild, NextChild>>
     ELSE /\ ownerPc' = <<"detachChild", ownerPc[2], "found", prev>>
          /\ op' = <<"detachChild found", ownerPc[2], prev>>
          /\ UNCHANGED <<groupVars, statusLock, sweep, cursor, running, visited>>

\* detachChild: prev->childFragment()->setNextChild(afterChild);
DetachSplice ==
  /\ OwnerAt("detachChild", "found")
  /\ NextChild' = [NextChild EXCEPT ![ownerPc[4]] = getNextChildTask(ownerPc[2])]
  /\ ownerPc' = <<"detachChild", ownerPc[2], "spliced", ownerPc[4]>>
  /\ op' = <<"spliced", ownerPc[2], ownerPc[4]>>
  /\ UNCHANGED <<FirstChild, LastChild, groupPc, attached, slotsEmpty, everDetached>>
  /\ UNCHANGED <<statusLock, sweep, cursor, running, visited>>

\* detachChild: if (child == LastChild) LastChild = prev; return;
DetachMoveLast ==
  /\ OwnerAt("detachChild", "spliced")
  /\ LastChild' = IF ownerPc[2] = LastChild THEN ownerPc[4] ELSE LastChild
  /\ Detached(ownerPc[2])
  /\ GroupOwnerReturn
  /\ UNCHANGED <<FirstChild, NextChild>>

\* A cancelling or escalating thread takes the lock and starts at
\* getFirstChild().
WalkBegin ==
  /\ sweep = <<"idle">>
  /\ LockAvailable
  /\ statusLock' = "sweeper"
  /\ sweep' = <<"walk">>
  /\ cursor' = FirstChild
  /\ visited' = <<>>
  /\ op' = <<"walk begins">>
  /\ UNCHANGED <<groupVars, ownerPc, running>>

\* The walk reads the child it is at and moves to getNextChildTask of it.
WalkStep ==
  /\ sweep = <<"walk">>
  /\ cursor # NULL
  /\ visited' = Append(visited, cursor)
  /\ cursor' = getNextChildTask(cursor)
  /\ op' = <<"walk reads", cursor>>
  /\ UNCHANGED <<groupVars, statusLock, ownerPc, sweep, running>>

\* The walk is past the last child and the thread releases the lock.
WalkEnd ==
  /\ sweep = <<"walk">>
  /\ cursor = NULL
  /\ statusLock' = "unlocked"
  /\ sweep' = <<"idle">>
  /\ visited' = <<>>
  /\ op' = <<"walk ends">>
  /\ UNCHANGED <<groupVars, ownerPc, cursor, running>>

GroupLockNext ==
  /\ \/ \E child \in Children : GroupOwnerLock("attachChild", child)
     \/ \E child \in Children : GroupOwnerLock("detachChild", child)
     \/ AttachSetLast
     \/ AttachLink
     \/ DetachMoveFirst
     \/ DetachClearLast
     \/ DetachScan
     \/ DetachSplice
     \/ DetachMoveLast
     \/ WalkBegin
     \/ WalkStep
     \/ WalkEnd
  /\ UNCHANGED <<chainVars, depVars, memberVars>>

SpecGroupLock == GroupInit /\ [][GroupLockNext]_vars

\* C15: while the foreign thread walks the children under the lock, the
\* owning task is inside neither attachChild nor detachChild, FirstChild and
\* LastChild are the first and the last of the attached children, and what
\* the walk has read followed by what is ahead of it is exactly the attached
\* children in order; so the list it walks starts at FirstChild, ends at
\* LastChild and contains exactly the attached, not detached children.
C15_WalkSeesOnlyCompleteLists ==
  sweep = <<"walk">> =>
    /\ ownerPc = <<"idle">>
    /\ FirstChild = IF attached = <<>> THEN NULL ELSE attached[1]
    /\ LastChild = IF attached = <<>> THEN NULL ELSE attached[Len(attached)]
    /\ visited \o Walk(NextChild, cursor, WalkFuel) = attached
    /\ cursor = NULL /\ visited # <<>> => visited[Len(visited)] = LastChild

\* A walk has read two children to the end of the list, after a child was
\* detached from the list and another attached behind it.
C15_Witness ==
  /\ sweep = <<"walk">>
  /\ cursor = NULL
  /\ Len(visited) = 2
  /\ visited = attached
  /\ visited[1] > visited[2]
  /\ everDetached # {}
====
